---- MODULE Spec2Model ----
(***************************************************************************)
(* OpenViking HTTP server wiring (openviking/server/app.py): create_app,   *)
(* the application lifespan, the protect_mcp_endpoint middleware and the   *)
(* MCP route-map catalog.                                                   *)
(*                                                                         *)
(* Strings are sequences of one-character atoms, so that rstrip,           *)
(* startswith and slicing are computed as Python computes them.            *)
(***************************************************************************)
EXTENDS Integers, Sequences, FiniteSets, TLC

VARIABLES
    config,              \* ServerConfig passed to create_app
    service_arg,         \* the `service` argument create_app was called with
    service,             \* the nonlocal `service` of create_app / lifespan
    pc,                  \* position in create_app and in the lifespan coroutine
    mcp_path,            \* create_app local, line 54
    mcp_route_maps,      \* create_app local, lines 175-187
    mcp_lifespan,        \* TRUE iff app.state.mcp_lifespan has been set
    route,               \* the route FastMCP.from_fastapi is converting
    in_flight,           \* a request has been handled, its result not yet consumed
    request,             \* that request: path and headers
    request_api_key,     \* protect_mcp_endpoint local at line 117
    response,            \* what protect_mcp_endpoint returned (or raised)
    call_next_calls,     \* how often call_next was invoked for that request
    registered_service,  \* the argument of set_service
    events               \* lifespan events, in order

vars == <<config, service_arg, service, pc, mcp_path, mcp_route_maps, mcp_lifespan, route,
          in_flight, request, request_api_key, response, call_next_calls,
          registered_service, events>>

----------------------------------------------------------------------------
(* Bounds *)

MaxKeyLen == 1
MaxTags == 1

(* Program constants *)

BearerLen == 7

----------------------------------------------------------------------------
(* Values *)

None == <<"None">>
DefaultMcpPath == <<"/", "m", "c", "p">>
BearerPrefix == <<"B", "e", "a", "r", "e", "r", " ">>
LowerBearerPrefix == <<"b", "e", "a", "r", "e", "r", " ">>
NonAsciiChars == {"0xE9"}
KeyChars == {"k", "0xE9"}
CredentialChars == {"k", "j", "0xE9"}

SeqsUpTo(S, n) == UNION {[1..m -> S] : m \in 0..n}

Range(s) == {s[i] : i \in 1..Len(s)}

(* Python truthiness of an Optional[str] *)
Truthy(x) == x # None /\ x # <<>>

(* str.startswith *)
StartsWith(s, p) == Len(s) >= Len(p) /\ SubSeq(s, 1, Len(p)) = p

(* s[n:] *)
SliceFrom(s, n) == SubSeq(s, n + 1, Len(s))

(* str.rstrip("/") *)
RECURSIVE RStripSlash(_)
RStripSlash(s) ==
    IF s # <<>> /\ s[Len(s)] = "/" THEN RStripSlash(SubSeq(s, 1, Len(s) - 1)) ELSE s

----------------------------------------------------------------------------
(* Configuration and request inputs *)

NoService == "None"

ApiKeys == {None} \cup SeqsUpTo(KeyChars, MaxKeyLen)

ConfigPaths ==
    { <<"/">>, <<"/", "m", "/", "/">>, DefaultMcpPath, DefaultMcpPath \o <<"/">> }

Configs == [enable_mcp : BOOLEAN, api_key : ApiKeys, mcp_path : ConfigPaths]

RequestPaths ==
    { <<"/">>, <<"/", "m">>, <<"/", "m", "/">>, <<"/", "m", "x">>,
      DefaultMcpPath, DefaultMcpPath \o <<"/">>, DefaultMcpPath \o <<"x">>,
      DefaultMcpPath \o <<"/", "x">> }

Credentials == SeqsUpTo(CredentialChars, MaxKeyLen)

XApiKeyValues == {None} \cup Credentials

AuthorizationValues ==
    {None} \cup { p \o c : p \in {BearerPrefix, LowerBearerPrefix}, c \in Credentials }

(* The request's headers: a header that is not sent is not in the domain. *)
MkHeaders(x, a) ==
    [n \in {m \in {"X-API-Key", "Authorization"} :
                (m = "X-API-Key" /\ x # None) \/ (m = "Authorization" /\ a # None)}
        |-> IF n = "X-API-Key" THEN x ELSE a]

HeaderSets == { MkHeaders(x, a) : x \in XApiKeyValues, a \in AuthorizationValues }

NoHeaders == MkHeaders(None, None)

Services == {NoService, "supplied"}

Methods == {"GET", "POST", "DELETE", "PUT"}

KnownTags == {"content", "filesystem", "resources", "search", "sessions", "relations"}

OtherTags == {"system", "pack", "debug", "observer"}

TagSets == {t \in SUBSET (KnownTags \cup OtherTags) : Cardinality(t) <= MaxTags}

----------------------------------------------------------------------------
(* create_app: mount path and route maps *)

NormalizeMcpPath(p) ==
    LET s == RStripSlash(p) IN IF s = <<>> THEN DefaultMcpPath ELSE s

Tags == <<"content", "filesystem", "resources", "search", "sessions", "relations">>

ResourceMap(tag) == [methods |-> <<"GET">>, tags |-> {tag}, mcp_type |-> "RESOURCE"]

ToolMap(tag) == [methods |-> <<"POST", "DELETE">>, tags |-> {tag}, mcp_type |-> "TOOL"]

(* RouteMap(mcp_type=EXCLUDE): methods default to "*", tags to the empty set *)
ExcludeMap == [methods |-> <<"*">>, tags |-> {}, mcp_type |-> "EXCLUDE"]

RECURSIVE AppendTagMaps(_, _)
AppendTagMaps(maps, i) ==
    IF i > Len(Tags) THEN maps
    ELSE AppendTagMaps(Append(Append(maps, ResourceMap(Tags[i])), ToolMap(Tags[i])), i + 1)

(* mutant: the TOOL maps forget DELETE *)
BuildRouteMapsPostOnly ==
    LET maps == Append(AppendTagMaps(<<>>, 1), ExcludeMap)
    IN [i \in DOMAIN maps |->
           IF maps[i].mcp_type = "TOOL" THEN [maps[i] EXCEPT !.methods = <<"POST">>]
           ELSE maps[i]]

(* mutant: the catch-all is put first *)
BuildRouteMapsExcludeFirst == <<ExcludeMap>> \o AppendTagMaps(<<>>, 1)

BuildRouteMaps == Append(AppendTagMaps(<<>>, 1), ExcludeMap)

(* FastMCP's route matching: the first map whose methods and tags match. *)
RouteMapMatches(m, method, tags) ==
    /\ (m.methods = <<"*">> \/ method \in Range(m.methods))
    /\ m.tags \subseteq tags

DetermineRouteType(maps, method, tags) ==
    LET hits == {i \in 1..Len(maps) : RouteMapMatches(maps[i], method, tags)}
    IN IF hits = {} THEN "NONE"
       ELSE maps[CHOOSE i \in hits : \A j \in hits : i <= j].mcp_type

----------------------------------------------------------------------------
(* protect_mcp_endpoint *)

HeadersGet(h, name, default) == IF name \in DOMAIN h THEN h[name] ELSE default

(* mutant: a bare prefix test, without the "/" *)
IsMcpRequestBarePrefix(path, mp) == StartsWith(path, mp)

IsMcpRequest(path, mp) == path = mp \/ StartsWith(path, mp \o <<"/">>)

(* mutant: `is not None` instead of truthiness *)
GatedUnlessNone(cfg, mp, path) ==
    cfg.enable_mcp /\ cfg.api_key # None /\ IsMcpRequest(path, mp)

Gated(cfg, mp, path) ==
    cfg.enable_mcp /\ Truthy(cfg.api_key) /\ IsMcpRequest(path, mp)

ResolveCredential(h) ==
    LET x == HeadersGet(h, "X-API-Key", None)
        authorization == HeadersGet(h, "Authorization", <<>>)
    IN IF Truthy(x) THEN x
       ELSE IF StartsWith(authorization, BearerPrefix)
            THEN SliceFrom(authorization, BearerLen)
            ELSE x

(* hmac.compare_digest on two str: TypeError unless both are ASCII *)
CompareDigest(a, b) ==
    IF (Range(a) \cup Range(b)) \cap NonAsciiChars # {} THEN "TypeError"
    ELSE IF a = b THEN "equal" ELSE "differ"

GateDecision(cfg, mp, path, h) ==
    IF Gated(cfg, mp, path)
    THEN LET key == ResolveCredential(h)
         IN IF ~Truthy(key) THEN "reject"
            ELSE LET cmp == CompareDigest(key, cfg.api_key)
                 IN IF cmp = "TypeError" THEN "raise"
                    ELSE IF cmp = "differ" THEN "reject" ELSE "forward"
    ELSE "forward"

NoResponse ==
    [source |-> "none", status_code |-> 0, status |-> "", code |-> "", message |-> ""]

Unauthenticated ==
    [source |-> "gate", status_code |-> 401, status |-> "error",
     code |-> "UNAUTHENTICATED", message |-> "Invalid API Key"]

(* general_error_handler's answer to an exception raised by the middleware *)
InternalError ==
    [source |-> "exception", status_code |-> 500, status |-> "error",
     code |-> "INTERNAL", message |-> "TypeError"]

(* what call_next returned: the mounted application's answer *)
Downstream ==
    [source |-> "call_next", status_code |-> 204, status |-> "", code |-> "", message |-> ""]

NoRequest == [path |-> <<>>, headers |-> NoHeaders]

NoRoute == [method |-> "", tags |-> {}, mcp_type |-> ""]

----------------------------------------------------------------------------
(* State machine *)

Init ==
    /\ config \in Configs
    /\ service_arg \in Services
    /\ service = service_arg
    /\ pc = "new"
    /\ mcp_path = <<>>
    /\ mcp_route_maps = <<>>
    /\ mcp_lifespan = FALSE
    /\ route = NoRoute
    /\ in_flight = FALSE
    /\ request = NoRequest
    /\ request_api_key = None
    /\ response = NoResponse
    /\ call_next_calls = 0
    /\ registered_service = NoService
    /\ events = <<>>

(* create_app up to line 187: mount path, middleware, routers, route maps *)
CreateApp ==
    /\ pc = "new"
    /\ mcp_path' = NormalizeMcpPath(config.mcp_path)
    /\ mcp_route_maps' = BuildRouteMaps
    /\ pc' = IF config.enable_mcp THEN "from_fastapi" ELSE "ready"
    /\ UNCHANGED <<config, service_arg, service, mcp_lifespan, route, in_flight, request,
                   request_api_key, response, call_next_calls, registered_service,
                   events>>

(* FastMCP.from_fastapi classifies one route of the application *)
ConvertRoute ==
    /\ pc = "from_fastapi"
    /\ \E method \in Methods, tags \in TagSets :
          route' = [method |-> method, tags |-> tags,
                    mcp_type |-> DetermineRouteType(mcp_route_maps, method, tags)]
    /\ UNCHANGED <<config, service_arg, service, pc, mcp_path, mcp_route_maps, mcp_lifespan,
                   in_flight, request, request_api_key, response, call_next_calls,
                   registered_service, events>>

(* lines 195-200: mount the MCP application and return the app *)
MountMcp ==
    /\ pc = "from_fastapi"
    /\ mcp_lifespan' = TRUE
    /\ route' = NoRoute
    /\ pc' = "ready"
    /\ UNCHANGED <<config, service_arg, service, mcp_path, mcp_route_maps, in_flight, request,
                   request_api_key, response, call_next_calls, registered_service,
                   events>>

(* one request through protect_mcp_endpoint *)
ProtectMcpEndpoint ==
    /\ pc \in {"ready", "serving"}
    /\ ~in_flight
    /\ \E path \in RequestPaths, h \in HeaderSets :
          LET d == GateDecision(config, mcp_path, path, h) IN
          /\ request' = [path |-> path, headers |-> h]
          /\ request_api_key' =
                IF Gated(config, mcp_path, path) THEN ResolveCredential(h) ELSE None
          /\ response' = IF d = "reject" THEN Unauthenticated
                         ELSE IF d = "raise" THEN InternalError ELSE Downstream
          /\ call_next_calls' = IF d = "forward" THEN 1 ELSE 0
    /\ in_flight' = TRUE
    /\ UNCHANGED <<config, service_arg, service, pc, mcp_path, mcp_route_maps, mcp_lifespan,
                   route, registered_service, events>>

(* the client receives the response *)
Respond ==
    /\ in_flight
    /\ in_flight' = FALSE
    /\ request' = NoRequest
    /\ request_api_key' = None
    /\ response' = NoResponse
    /\ call_next_calls' = 0
    /\ UNCHANGED <<config, service_arg, service, pc, mcp_path, mcp_route_maps, mcp_lifespan,
                   route, registered_service, events>>

Lifespan(newpc, newservice, evs) ==
    /\ ~in_flight
    /\ pc' = newpc
    /\ service' = newservice
    /\ events' = events \o evs
    /\ UNCHANGED <<config, service_arg, mcp_path, mcp_route_maps, mcp_lifespan, route,
                   in_flight, request, request_api_key, response, call_next_calls>>

(* lines 60-62: entering the lifespan; the service is created when none was passed *)
LifespanStart ==
    /\ pc = "ready"
    /\ IF service = NoService
       THEN Lifespan("initialize", "created", <<"create">>)
       ELSE Lifespan("set_service", service, <<>>)
    /\ UNCHANGED registered_service

(* line 63: await service.initialize() *)
Initialize ==
    /\ pc = "initialize"
    /\ Lifespan("set_service", service, <<"initialize">>)
    /\ UNCHANGED registered_service

InitializeRaises ==
    /\ pc = "initialize"
    /\ Lifespan("failed", service, <<"raise">>)
    /\ UNCHANGED registered_service

(* lines 66-71: set_service, then yield, inside the MCP lifespan when enabled *)
SetService ==
    /\ pc = "set_service"
    /\ registered_service' = service
    /\ IF config.enable_mcp
       THEN IF mcp_lifespan
            THEN Lifespan("serving", service, <<"set_service", "mcp_enter", "yield">>)
            ELSE Lifespan("failed", service, <<"set_service", "raise">>)
       ELSE Lifespan("serving", service, <<"set_service", "yield">>)

(* shutdown: the yield returns and the MCP lifespan, if any, is left *)
Shutdown ==
    /\ pc = "serving"
    /\ Lifespan("cleanup", service,
                IF config.enable_mcp THEN <<"serving_ended", "mcp_exit">>
                ELSE <<"serving_ended">>)
    /\ UNCHANGED registered_service

(* mutant: only a service the lifespan created itself is closed *)
CleanupOwnedOnly ==
    /\ pc = "cleanup"
    /\ Lifespan("stopped", service, IF service = "created" THEN <<"close">> ELSE <<>>)
    /\ UNCHANGED registered_service

(* lines 74-76 *)
Cleanup ==
    /\ pc = "cleanup"
    /\ Lifespan("stopped", service, IF service # NoService THEN <<"close">> ELSE <<>>)
    /\ UNCHANGED registered_service

Next ==
    \/ CreateApp
    \/ ConvertRoute
    \/ MountMcp
    \/ ProtectMcpEndpoint
    \/ Respond
    \/ LifespanStart
    \/ Initialize
    \/ InitializeRaises
    \/ SetService
    \/ Shutdown
    \/ Cleanup

Spec == Init /\ [][Next]_vars
----------------------------------------------------------------------------
(* The statements checked.  The protected prefix and the credential are     *)
(* restated here from the specification's wording, independently of the    *)
(* operators above.                                                          *)

(* the configured path without its trailing slashes, "/mcp" when nothing is left *)
ExpectedMount(p) ==
    LET k == CHOOSE n \in 0..Len(p) :
                 /\ n = 0 \/ p[n] # "/"
                 /\ \A j \in (n + 1)..Len(p) : p[j] = "/"
    IN IF k = 0 THEN DefaultMcpPath ELSE SubSeq(p, 1, k)

(* the path is the mount path or nested under it *)
UnderMount(path, mount) ==
    \/ path = mount
    \/ /\ Len(path) > Len(mount)
       /\ \A i \in 1..Len(mount) : path[i] = mount[i]
       /\ path[Len(mount) + 1] = "/"

Protected ==
    /\ in_flight
    /\ config.enable_mcp
    /\ config.api_key # None /\ config.api_key # <<>>
    /\ UnderMount(request.path, ExpectedMount(config.mcp_path))

Sent(name) == name \in DOMAIN request.headers

Forwarded == response = Downstream /\ call_next_calls = 1

Rejected401 ==
    /\ response.source = "gate"
    /\ response.status_code = 401
    /\ response.status = "error"
    /\ response.code = "UNAUTHENTICATED"
    /\ response.message = "Invalid API Key"
    /\ call_next_calls = 0

(* C1: a protected request whose resolved credential is missing or differs from
   the configured secret is answered 401 UNAUTHENTICATED "Invalid API Key" and
   call_next is not invoked. *)
C1_MismatchRejected ==
    (Protected /\ (request_api_key = None \/ request_api_key = <<>>
                   \/ request_api_key # config.api_key))
        => Rejected401

(* C2: a request carrying the correct secret in X-API-Key is forwarded to
   call_next, whatever its path and its Authorization header. *)
C2_XApiKeyForwarded ==
    (in_flight /\ Sent("X-API-Key") /\ request.headers["X-API-Key"] = config.api_key)
        => Forwarded

(* C3: a request without X-API-Key whose Authorization header is exactly
   "Bearer " followed by the correct secret is forwarded to call_next. *)
C3_BearerForwarded ==
    (/\ in_flight
     /\ ~Sent("X-API-Key")
     /\ config.api_key # None
     /\ Sent("Authorization")
     /\ request.headers["Authorization"] = BearerPrefix \o config.api_key)
        => Forwarded

(* C4: with no secret configured (None or empty) or with enable_mcp false,
   every request to the mount path or below it is forwarded, whatever
   credential headers it carries. *)
C4_InertGateForwards ==
    (/\ in_flight
     /\ (config.api_key = None \/ config.api_key = <<>> \/ ~config.enable_mcp)
     /\ UnderMount(request.path, ExpectedMount(config.mcp_path)))
        => Forwarded

C4_Witness ==
    /\ in_flight
    /\ config.enable_mcp
    /\ config.api_key = <<>>
    /\ request.path = ExpectedMount(config.mcp_path) \o <<"/">>
    /\ Sent("X-API-Key") /\ request.headers["X-API-Key"] = <<"k">>
    /\ Forwarded

(* C5: a request whose path is neither the normalized mount path nor nested
   under it is forwarded to call_next, whatever its credentials. *)
C5_OutsidePrefixForwarded ==
    (in_flight /\ ~UnderMount(request.path, ExpectedMount(config.mcp_path)))
        => Forwarded

C5_Witness ==
    /\ in_flight
    /\ config.enable_mcp
    /\ config.api_key = <<"k">>
    /\ config.mcp_path = DefaultMcpPath \o <<"/">>
    /\ request.path = DefaultMcpPath \o <<"x">>
    /\ request.headers = NoHeaders
    /\ Forwarded

(* C6: the catalog create_app builds has exactly 13 entries: per known tag one
   ([GET], {tag}, RESOURCE) and one ([POST, DELETE], {tag}, TOOL), and exactly
   one EXCLUDE entry, without tags, which is the last; it is the same catalog
   for every configuration. *)
C6_CatalogShape ==
    pc # "new" =>
        /\ Len(mcp_route_maps) = 13
        /\ \A t \in KnownTags :
              /\ Cardinality({i \in 1..Len(mcp_route_maps) :
                     mcp_route_maps[i] =
                        [methods |-> <<"GET">>, tags |-> {t}, mcp_type |-> "RESOURCE"]}) = 1
              /\ Cardinality({i \in 1..Len(mcp_route_maps) :
                     mcp_route_maps[i] =
                        [methods |-> <<"POST", "DELETE">>, tags |-> {t},
                         mcp_type |-> "TOOL"]}) = 1
        /\ {i \in 1..Len(mcp_route_maps) : mcp_route_maps[i].mcp_type = "EXCLUDE"}
              = {Len(mcp_route_maps)}
        /\ mcp_route_maps[Len(mcp_route_maps)].tags = {}
        /\ \A i \in 1..6 :
              /\ mcp_route_maps[2 * i - 1].tags = {Tags[i]}
              /\ mcp_route_maps[2 * i - 1].mcp_type = "RESOURCE"
              /\ mcp_route_maps[2 * i].tags = {Tags[i]}
              /\ mcp_route_maps[2 * i].mcp_type = "TOOL"

C6_Witness ==
    /\ pc = "ready"
    /\ ~config.enable_mcp
    /\ config.api_key = None
    /\ Len(mcp_route_maps) = 13
    /\ mcp_route_maps[13].mcp_type = "EXCLUDE"

(* C7: evaluated first match first, the catalog classifies every endpoint:
   RESOURCE for a GET carrying a known tag, TOOL for a POST or DELETE carrying
   a known tag, EXCLUDE for everything else; none is left unclassified. *)
C7_Classification ==
    route # NoRoute =>
        route.mcp_type =
            IF route.tags \cap KnownTags # {} /\ route.method = "GET" THEN "RESOURCE"
            ELSE IF route.tags \cap KnownTags # {} /\ route.method \in {"POST", "DELETE"}
                 THEN "TOOL"
                 ELSE "EXCLUDE"

C7_Witness ==
    /\ route.method = "POST"
    /\ route.tags = {"system"}
    /\ route.mcp_type = "EXCLUDE"

(* the credential as the specification resolves it: X-API-Key when sent,
   otherwise the Authorization value after the exact prefix "Bearer ".  An
   X-API-Key sent with an empty value is read here as absent. *)
SpecCredential ==
    IF Sent("X-API-Key") /\ request.headers["X-API-Key"] # <<>>
    THEN request.headers["X-API-Key"]
    ELSE IF Sent("Authorization")
            /\ Len(request.headers["Authorization"]) >= 7
            /\ SubSeq(request.headers["Authorization"], 1, 7) = BearerPrefix
         THEN SubSeq(request.headers["Authorization"], 8,
                     Len(request.headers["Authorization"]))
         ELSE IF Sent("X-API-Key") THEN <<>> ELSE None

(* C9: on a gated request X-API-Key is used first and Authorization only when
   X-API-Key is absent, with the exact prefix "Bearer " stripped; so a wrong
   X-API-Key beside a correct bearer token is answered 401, and so is
   "bearer <secret>" in lower case. *)
C9_ResolutionOrder ==
    Protected =>
        /\ request_api_key = SpecCredential
        /\ (/\ Sent("X-API-Key")
            /\ request.headers["X-API-Key"] # <<>>
            /\ request.headers["X-API-Key"] # config.api_key
            /\ Sent("Authorization")
            /\ request.headers["Authorization"] = BearerPrefix \o config.api_key)
              => Rejected401
        /\ (/\ ~Sent("X-API-Key")
            /\ Sent("Authorization")
            /\ request.headers["Authorization"] = LowerBearerPrefix \o config.api_key)
              => Rejected401

(* C10: a lifespan that starts and shuts down without an exception runs, in
   this order: create and initialize the service (only when none was passed),
   set_service(service), the serving period (inside the MCP lifespan exactly
   when enable_mcp is true, which is exactly when app.state.mcp_lifespan is
   set), the end of serving and of the MCP lifespan, and then one
   service.close(), also for a service the caller supplied; close never comes
   before serving has ended. *)
C10_LifespanOrder ==
    /\ pc \notin {"new", "from_fastapi"} => (mcp_lifespan <=> config.enable_mcp)
    /\ "close" \in Range(events) => pc = "stopped"
    /\ pc = "stopped" =>
          /\ events =
                (IF service_arg = NoService THEN <<"create", "initialize">> ELSE <<>>)
                \o <<"set_service">>
                \o (IF config.enable_mcp THEN <<"mcp_enter">> ELSE <<>>)
                \o <<"yield", "serving_ended">>
                \o (IF config.enable_mcp THEN <<"mcp_exit">> ELSE <<>>)
                \o <<"close">>
          /\ registered_service = service
          /\ service = IF service_arg = NoService THEN "created" ELSE service_arg

C10_Witness ==
    /\ pc = "stopped"
    /\ service_arg = "supplied"
    /\ config.enable_mcp
    /\ events[Len(events)] = "close"

====
